---- MODULE Spec2Model ----
(***************************************************************************)
(* Model of src/image_decoder.rs: the colour converters (PixelAverage,     *)
(* YUV420Pixel, Rgb565), the linear decoders (rgb565_to_rgb888,            *)
(* decode_image, decode_image_multichannel,                                *)
(* decode_small_image_multichannel) and the two de-tilers                  *)
(* (decode_tiled_small_image, to_image).                                   *)
(*                                                                         *)
(* One decode call is one behaviour: the loop counters are the program     *)
(* position, one action is one pass through the innermost loop body (one   *)
(* unchecked pixel write), and the crop that ends a de-tiler is one more   *)
(* action.  A converter is an operator; the specifications SpecRgb565,     *)
(* SpecYuv and SpecAverage draw its inputs and apply it.                   *)
(***************************************************************************)
EXTENDS Integers, Sequences, FiniteSets, TLC

VARIABLES
    fn,      \* the decoder that was called ("none" in the converter specs)
    args,    \* its arguments (a record)
    pos,     \* the loop counters of the running decoder
    i,       \* the running source cursor of a de-tiler
    img,     \* the raster under construction, flat, row-major
    wcount,  \* history: number of writes each raster cell has received
    last,    \* history: the last unchecked write (coordinates, source offsets)
    pc,      \* "loop", "crop", "done" or "fault"
    out,     \* the returned image
    conv,    \* the converter under test ("none" in the decoder specs)
    dat,     \* the converter's fields
    rgbOut,  \* what rgb() returned, <<>> before the call
    added    \* history: how often each word was given to PixelAverage::add

decVars == <<fn, args, pos, i, img, wcount, last, pc, out>>
convVars == <<conv, dat, rgbOut, added>>
vars == <<fn, args, pos, i, img, wcount, last, pc, out, conv, dat, rgbOut, added>>

----------------------------------------------------------------------------
(* Machine integers.  A u8 or u16 value is a number; a u32 word that can   *)
(* use all of its 32 bits is the pair <<high 16 bits, low 16 bits>>.       *)
(* Offsets and coordinates are small numbers below 2^31 throughout.        *)

TwoPow8 == 256
TwoPow16 == 65536

U8(v) == v % TwoPow8
U16(v) == v % TwoPow16

RECURSIVE Pow2(_)
Pow2(n) == IF n = 0 THEN 1 ELSE 2 * Pow2(n - 1)

\* v >> n on a number (on a negative i32 the shift is arithmetic: floor)
Shr(v, n) == v \div Pow2(n)

W32(hi, lo) == <<hi, lo>>
Hi(w) == w[1]
Lo(w) == w[2]

\* wrapping u32 addition
Add32(a, b) ==
    LET lo == Lo(a) + Lo(b)
    IN  W32(U16(Hi(a) + Hi(b) + lo \div TwoPow16), U16(lo))

\* w / 16 and w >> n (n = 8 or 16) on a u32
Div16_32(w) == W32(Hi(w) \div 16, (Hi(w) % 16) * 4096 + Lo(w) \div 16)
Shr32(w, n) ==
    IF n = 16 THEN W32(0, Hi(w))
    ELSE W32(Hi(w) \div TwoPow8, (Hi(w) % TwoPow8) * TwoPow8 + Lo(w) \div TwoPow8)

\* (w >> 8 * k) as u8: byte k (0 = least significant) of a u32
ByteOf(w, k) ==
    IF k < 2 THEN Shr(Lo(w), 8 * k) % TwoPow8 ELSE Shr(Hi(w), 8 * (k - 2)) % TwoPow8

\* w as u8
AsU8(w) == Lo(w) % TwoPow8

----------------------------------------------------------------------------
(* PixelAverage, lines 3-31 *)

PixelAverage_new == [avg_rb |-> W32(0, 0), avg_g |-> W32(0, 0)]

\* rgb & 0x00FF00FF and rgb & 0x0000FF00
MaskRB(rgb) == W32(Hi(rgb) % TwoPow8, Lo(rgb) % TwoPow8)
MaskG(rgb) == W32(0, (Lo(rgb) \div TwoPow8) * TwoPow8)

\* faulty variant: the red/blue mask lets the green byte through
PixelAverage_add_wide(self, rgb) ==
    [avg_rb |-> Add32(self.avg_rb, W32(Hi(rgb) % TwoPow8, Lo(rgb))),
     avg_g  |-> Add32(self.avg_g, MaskG(rgb))]

PixelAverage_add(self, rgb) ==
    [avg_rb |-> Add32(self.avg_rb, MaskRB(rgb)),
     avg_g  |-> Add32(self.avg_g, MaskG(rgb))]

PixelAverage_rgb(self) ==
    LET rb == Div16_32(self.avg_rb)
        g  == Shr32(Div16_32(self.avg_g), 8)
        b  == rb
        r  == Shr32(rb, 16)
    IN  <<AsU8(r), AsU8(g), AsU8(b)>>

----------------------------------------------------------------------------
(* YUV420Pixel, lines 53-90 *)

\* y, u, v are u8 values widened to i32; every intermediate below stays far
\* inside the i32 range (C5 states the bound)
\* faulty variant: a bare "as u8" in place of the saturation
clamp_wrapping(v) == U8(v)

clamp(v) == IF v > 255 THEN 255 ELSE IF v < 0 THEN 0 ELSE U8(v)

YUV420Pixel_rgb(self) ==
    LET y == self[1]
        u == self[2]
        v == self[3]
        c == y - 16
        d == u - 128
        e == v - 128
        r == Shr(298 * c + 409 * e + 128, 8)
        g == Shr(298 * c - 100 * d - 208 * e + 128, 8)
        b == Shr(298 * c + 516 * d + 128, 8)
    IN  <<clamp(r), clamp(g), clamp(b)>>

----------------------------------------------------------------------------
(* Rgb565, lines 92-111 *)

\* the closure byte(i, c): ((1 << c) - 1) as u16 & (dat >> i), as u8
Rgb565_byte(d, sh, c) == U8(Shr(d, sh) % Pow2(c))

\* faulty variant: expansion by shifting the field left
Rgb565_rgb_shift(d) ==
    <<U8(Rgb565_byte(d, 11, 5) * 8), U8(Rgb565_byte(d, 5, 6) * 4),
      U8(Rgb565_byte(d, 0, 5) * 8)>>

Rgb565_rgb(d) ==
    LET r8 == Shr(U16(Rgb565_byte(d, 11, 5) * 527 + 23), 6)
        g8 == Shr(U16(Rgb565_byte(d, 5, 6) * 259 + 33), 6)
        b8 == Shr(U16(Rgb565_byte(d, 0, 5) * 527 + 23), 6)
    IN  <<U8(r8), U8(g8), U8(b8)>>

----------------------------------------------------------------------------
(* The converters as state machines: construct a pixel, call rgb() *)

idleDec ==
    /\ fn = "none" /\ args = <<>> /\ pos = <<>> /\ i = 0 /\ img = <<>>
    /\ wcount = <<>> /\ last = <<>> /\ pc = "done" /\ out = <<>>

idleConv == conv = "none" /\ dat = 0 /\ rgbOut = <<>> /\ added = <<>>

\* Rgb565: every 16-bit value is reached from 0 by raising one field by one
Rgb565Fields(d) == <<Shr(d, 11) % 32, Shr(d, 5) % 64, d % 32>>
Rgb565Pack(f) == f[1] * 2048 + f[2] * 32 + f[3]

Rgb565Successors(d) ==
    LET f == Rgb565Fields(d)
    IN  {Rgb565Pack(<<f[1] + 1, f[2], f[3]>>) : x \in {k \in {0} : f[1] < 31}}
        \cup {Rgb565Pack(<<f[1], f[2] + 1, f[3]>>) : x \in {k \in {0} : f[2] < 63}}
        \cup {Rgb565Pack(<<f[1], f[2], f[3] + 1>>) : x \in {k \in {0} : f[3] < 31}}

InitRgb565 ==
    /\ idleDec
    /\ conv = "Rgb565" /\ dat = 0 /\ rgbOut = Rgb565_rgb(0) /\ added = <<>>

\* Rgb565::new(d).rgb() on the next value
Rgb565Convert ==
    /\ conv = "Rgb565"
    /\ \E d \in Rgb565Successors(dat) :
          /\ dat' = d
          /\ rgbOut' = Rgb565_rgb(d)
    /\ UNCHANGED <<conv, added>>
    /\ UNCHANGED decVars

SpecRgb565 == InitRgb565 /\ [][Rgb565Convert]_vars

\* YUV420Pixel: the triples of the sample sets
ChromaStride == 5
LumaSamples == 0 .. 255
ChromaSamples ==
    {k \in 0 .. 255 : k % ChromaStride = 0} \cup {1, 16, 127, 128, 129, 235, 254, 255}

InitYuv ==
    /\ idleDec
    /\ conv = "YUV420Pixel"
    /\ dat \in LumaSamples \X ChromaSamples \X ChromaSamples
    /\ rgbOut = <<>> /\ added = <<>>

YuvConvert ==
    /\ conv = "YUV420Pixel" /\ rgbOut = <<>>
    /\ rgbOut' = YUV420Pixel_rgb(dat)
    /\ UNCHANGED <<conv, dat, added>>
    /\ UNCHANGED decVars

SpecYuv == InitYuv /\ [][YuvConvert]_vars

\* PixelAverage: new(), add() up to MaxAdds times, rgb() at any time
MaxAdds == 17
\* 0x00000000, 0x00FFFFFF, 0x000180FF, 0x00FF0001, 0x0010200F, 0xFF7F80FE
Words == {W32(0, 0), W32(255, 65535), W32(1, 33023), W32(255, 1), W32(16, 8207),
          W32(65407, 33022)}

InitAverage ==
    /\ idleDec
    /\ conv = "PixelAverage" /\ dat = PixelAverage_new /\ rgbOut = <<>>
    /\ added = [w \in Words |-> 0]

RECURSIVE SumOver(_, _)
SumOver(f, S) ==
    IF S = {} THEN 0
    ELSE LET x == CHOOSE y \in S : TRUE IN f[x] + SumOver(f, S \ {x})

NumAdded == SumOver(added, Words)

AverageAdd ==
    /\ conv = "PixelAverage" /\ rgbOut = <<>> /\ NumAdded < MaxAdds
    /\ \E w \in Words :
          /\ dat' = PixelAverage_add(dat, w)
          /\ added' = [added EXCEPT ![w] = @ + 1]
    /\ UNCHANGED <<conv, rgbOut>>
    /\ UNCHANGED decVars

AverageRgb ==
    /\ conv = "PixelAverage" /\ rgbOut = <<>>
    /\ rgbOut' = PixelAverage_rgb(dat)
    /\ UNCHANGED <<conv, dat, added>>
    /\ UNCHANGED decVars

SpecAverage == InitAverage /\ [][AverageAdd \/ AverageRgb]_vars

----------------------------------------------------------------------------
(* Source buffers.  The caller's memory is a stream of 16-bit units, unit k *)
(* holding (a*k + b) mod 2^16, long enough for every read of the call (the  *)
(* caller's contract); a = 0 is a constant buffer.  A &[u32] view reads two *)
(* units per word and a &[u8] view two bytes per unit, little-endian.       *)

Sample16(buf, k) == U16(buf.a * k + buf.b)
Sample32(buf, k) == W32(Sample16(buf, 2 * k + 1), Sample16(buf, 2 * k))
Sample8(buf, k) == Shr(Sample16(buf, k \div 2), 8 * (k % 2)) % TwoPow8

\* 0xF800 everywhere; 1, 2, 3, ...; a stream that varies every channel
BufRed == [a |-> 0, b |-> 63488]
BufCount == [a |-> 1, b |-> 1]
BufMixed == [a |-> 2731, b |-> 77]

----------------------------------------------------------------------------
(* The raster: RgbImage::new(w, h) and unsafe_put_pixel *)

\* The raster is the flat row-major pixel array of the image, kept as a
\* sequence: pixel (x, y) of a w-wide raster is element y*w + x + 1.
Black == <<0, 0, 0>>
NewImage(w, h) == [k \in 1 .. w * h |-> Black]
NoWrites(w, h) == [k \in 1 .. w * h |-> 0]
Cell(w, x, y) == y * w + x + 1

\* What an unchecked write of px at (x, y) into a w by h raster can do.
\* Inside the raster it stores the pixel.  Outside it the behaviour is
\* undefined: the build either faults, or stores at the flat index y*w + x,
\* which is another cell of the raster when it is below w*h and memory
\* beyond the allocation (raster unchanged) when it is not.
PutPixel(im, wc, w, h, x, y, px) ==
    LET k == Cell(w, x, y)
    IN  IF x < w /\ y < h
        THEN {[img |-> [im EXCEPT ![k] = px], wcount |-> [wc EXCEPT ![k] = @ + 1],
               fault |-> FALSE]}
        ELSE {[img |-> im, wcount |-> wc, fault |-> TRUE]}
             \cup (IF k <= w * h
                   THEN {[img |-> [im EXCEPT ![k] = px],
                          wcount |-> [wc EXCEPT ![k] = @ + 1], fault |-> FALSE]}
                   ELSE {[img |-> im, wcount |-> wc, fault |-> FALSE]})

\* get_pixel of a w-wide raster
GetPixel(im, w, x, y) == im[Cell(w, x, y)]

----------------------------------------------------------------------------
(* The linear decoders, lines 113-200 *)

MaxDim == 4
Dims == 0 .. MaxDim
Pitches == {4, 8, 10, 16}
LumaPitches == {MaxDim + 1, MaxDim + 3}
ChromaPitches == {MaxDim \div 2 + 1, MaxDim \div 2 + 2}

LinearFns ==
    {"rgb565_to_rgb888", "decode_image", "decode_image_multichannel",
     "decode_small_image_multichannel"}

\* the dimensions of the raster a linear decoder allocates
LinearW == IF fn = "decode_small_image_multichannel"
           THEN args.size[1] \div 2 ELSE args.size[1]
LinearH == IF fn = "decode_small_image_multichannel"
           THEN args.size[2] \div 2 ELSE args.size[2]

InitLinear ==
    /\ idleConv
    /\ fn \in LinearFns
    /\ IF fn \in {"rgb565_to_rgb888", "decode_image"}
       THEN args \in [mapping : {BufRed, BufCount, BufMixed}, pitch : Pitches,
                      size : Dims \X Dims]
       ELSE args \in [mappings : {<<BufCount, BufMixed, BufRed>>,
                                  <<BufMixed, BufCount, BufMixed>>},
                      size : Dims \X Dims,
                      pitches : LumaPitches \X ChromaPitches \X ChromaPitches]
    /\ pos = [x |-> 0, y |-> 0]
    /\ i = 0
    /\ img = NewImage(LinearW, LinearH)
    /\ wcount = NoWrites(LinearW, LinearH)
    /\ last = <<>>
    /\ pc = IF LinearW = 0 \/ LinearH = 0 THEN "done" ELSE "loop"
    /\ out = <<>>

\* for y in 0..h { for x in 0..w { .. } }: the counters after one more pass
NextXY(p, w, h) ==
    IF p.x + 1 < w THEN [x |-> p.x + 1, y |-> p.y] ELSE [x |-> 0, y |-> p.y + 1]

\* one pass of a linear decoder's loop body: px, converted from the samples
\* val read at the offsets off, is put at (pos.x, pos.y); the function
\* returns img when the loops end
LinearStep(off, val, px) ==
    /\ \E o \in PutPixel(img, wcount, LinearW, LinearH, pos.x, pos.y, px) :
          /\ img' = o.img
          /\ wcount' = o.wcount
          /\ pc' = IF o.fault THEN "fault"
                   ELSE IF NextXY(pos, LinearW, LinearH).y < LinearH THEN "loop"
                   ELSE "done"
          /\ out' = IF pc' = "done" THEN o.img ELSE out
    /\ pos' = NextXY(pos, LinearW, LinearH)
    /\ last' = [x |-> pos.x, y |-> pos.y, off |-> off, val |-> val]
    /\ UNCHANGED <<fn, args, i>>
    /\ UNCHANGED convVars

\* lines 116, 120 and 132, 136
\* faulty variant: the pitch taken in bytes, not samples
LinearOffsetPitchInBytes(pitch, unit, x, y) == y * pitch + x
LinearOffset(pitch, unit, x, y) == y * (pitch \div unit) + x

Rgb565ToRgb888Px ==
    /\ fn = "rgb565_to_rgb888" /\ pc = "loop"
    /\ LET offset == LinearOffset(args.pitch, 2, pos.x, pos.y)
           v == Sample16(args.mapping, offset)
       IN  LinearStep(<<offset>>, v, Rgb565_rgb(v))

DecodeImagePx ==
    /\ fn = "decode_image" /\ pc = "loop"
    /\ LET offset == LinearOffset(args.pitch, 4, pos.x, pos.y)
           v == Sample32(args.mapping, offset)
       IN  LinearStep(<<offset>>, v, <<ByteOf(v, 2), ByteOf(v, 1), ByteOf(v, 0)>>)

\* lines 158-160
FullOffsets(pitches, x, y) ==
    <<y * pitches[1] + x,
      (y \div 2) * pitches[2] + x \div 2,
      (y \div 2) * pitches[3] + x \div 2>>

DecodeImageMultichannelPx ==
    /\ fn = "decode_image_multichannel" /\ pc = "loop"
    /\ LET off == FullOffsets(args.pitches, pos.x, pos.y)
           yuv == <<Sample8(args.mappings[1], off[1]),
                    Sample8(args.mappings[2], off[2]),
                    Sample8(args.mappings[3], off[3])>>
       IN  LinearStep(off, yuv, YUV420Pixel_rgb(yuv))

\* lines 184-186
\* faulty variant: the luma row not doubled
SmallOffsetsLumaNotDoubled(pitches, x, y) ==
    <<y * pitches[1] + 2 * x, y * pitches[2] + x, y * pitches[3] + x>>
SmallOffsets(pitches, x, y) ==
    <<2 * y * pitches[1] + 2 * x, y * pitches[2] + x, y * pitches[3] + x>>

DecodeSmallImageMultichannelPx ==
    /\ fn = "decode_small_image_multichannel" /\ pc = "loop"
    /\ LET off == SmallOffsets(args.pitches, pos.x, pos.y)
           yat(o) == Sample8(args.mappings[1], o)
           yval == (yat(off[1]) + yat(off[1] + 1) + yat(off[1] + args.pitches[1])
                    + yat(off[1] + args.pitches[1] + 1)) \div 4
           yuv == <<U8(yval), Sample8(args.mappings[2], off[2]),
                    Sample8(args.mappings[3], off[3])>>
       IN  LinearStep(off, yuv, YUV420Pixel_rgb(yuv))

NextLinear ==
    \/ Rgb565ToRgb888Px
    \/ DecodeImagePx
    \/ DecodeImageMultichannelPx
    \/ DecodeSmallImageMultichannelPx

SpecLinear == InitLinear /\ [][NextLinear]_vars

----------------------------------------------------------------------------
(* The de-tilers, lines 202-336.  The nested closures are a fixed call     *)
(* tree; pos holds one counter per level of it:                            *)
(*   ytile  the tile row of the outer for                                  *)
(*   n      the pass of the inner for (0..tiles.0, reversed on odd rows)   *)
(*   quad   the copy_16x16_px call inside copy_tile                        *)
(*   row    the copy_16x4_px call inside copy_16x16_px                     *)
(*   blk    the copy_4x4_px call inside copy_16x4_px   (to_image only)     *)
(*   line   the copy_4_px call inside copy_4x4_px      (to_image only)     *)
(*   px     the copy_px call inside copy_4_px, or the avg_16 call inside   *)
(*          copy_16x4_px                                                   *)

MaxTilesX == 2
MaxTilesY == 2
TileFns == {"to_image", "decode_tiled_small_image"}
TileBufs == {BufCount, BufMixed}
TileSizes == {16, 32, 48}

\* lines 208 and 267: the raster the de-tiler allocates
CanvasW == IF fn = "to_image" THEN args.tiles[1] * args.tilesize
           ELSE (args.tiles[1] * args.tilesize) \div 4
CanvasH == IF fn = "to_image" THEN args.tiles[2] * args.tilesize
           ELSE (args.tiles[2] * args.tilesize) \div 4

InitTiles(sizes) ==
    /\ idleConv
    /\ fn \in TileFns
    /\ args \in [mapping : TileBufs, tilesize : sizes,
                 tiles : (1 .. MaxTilesX) \X (1 .. MaxTilesY)]
    /\ pos = [ytile |-> 0, n |-> 0, quad |-> 0, row |-> 0, blk |-> 0, line |-> 0,
              px |-> 0]
    /\ i = 0
    /\ img = NewImage(CanvasW, CanvasH)
    /\ wcount = NoWrites(CanvasW, CanvasH)
    /\ last = <<>>
    /\ pc = "loop"
    /\ out = <<>>

\* for xtile in 0..tiles.0, and (0..tiles.0).rev() on an odd row
\* faulty variant: every tile row walked left to right
XTileNeverReversed(p) == p.n
XTile(p) == IF p.ytile % 2 = 0 THEN p.n ELSE args.tiles[1] - 1 - p.n

\* copy_tile of to_image, lines 311-316 and 322-327: the offset of call q
ToImageQuad(ytile, q) ==
    IF ytile % 2 = 0
    THEN <<<<0, 0>>, <<0, 16>>, <<16, 16>>, <<16, 0>>>>[q + 1]
    ELSE <<<<16, 16>>, <<16, 0>>, <<0, 0>>, <<0, 16>>>>[q + 1]

\* copy_tile of decode_tiled_small_image, lines 239-244 and 250-255
SmallQuad(ytile, q) ==
    IF ytile % 2 = 0
    THEN <<<<0, 0>>, <<0, 4>>, <<4, 4>>, <<4, 0>>>>[q + 1]
    ELSE <<<<4, 4>>, <<4, 0>>, <<0, 0>>, <<0, 4>>>>[q + 1]

\* the coordinates the copy_px call at p writes: lines 319/330, 312-315,
\* 303-306, 296-299, 289-292, 282-285
ToImageTarget(p) ==
    LET tile == <<XTile(p) * args.tilesize, p.ytile * args.tilesize>>
        q == ToImageQuad(p.ytile, p.quad)
        c16x16 == <<tile[1] + q[1], tile[2] + q[2]>>
        c16x4 == <<c16x16[1], c16x16[2] + 4 * p.row>>
        c4x4 == <<c16x4[1] + 4 * p.blk, c16x4[2]>>
        c4 == <<c4x4[1], c4x4[2] + p.line>>
    IN  <<c4[1] + p.px, c4[2]>>

\* the coordinates the avg_16 call at p writes: lines 247/258, 240-243,
\* 231-234, 224-227
SmallTarget(p) ==
    LET tile == <<(XTile(p) * args.tilesize) \div 4,
                  (p.ytile * args.tilesize) \div 4>>
        q == SmallQuad(p.ytile, p.quad)
        c16x16 == <<tile[1] + q[1], tile[2] + q[2]>>
        c16x4 == <<c16x16[1], c16x16[2] + p.row>>
    IN  <<c16x4[1] + p.px, c16x4[2]>>

\* the counters after the call at p returns
NextTile(p) ==
    IF p.quad < 3 THEN [p EXCEPT !.quad = @ + 1]
    ELSE IF p.n + 1 < args.tiles[1] THEN [p EXCEPT !.quad = 0, !.n = @ + 1]
    ELSE [p EXCEPT !.quad = 0, !.n = 0, !.ytile = @ + 1]

ToImageNext(p) ==
    IF p.px < 3 THEN [p EXCEPT !.px = @ + 1]
    ELSE IF p.line < 3 THEN [p EXCEPT !.px = 0, !.line = @ + 1]
    ELSE IF p.blk < 3 THEN [p EXCEPT !.px = 0, !.line = 0, !.blk = @ + 1]
    ELSE IF p.row < 3 THEN [p EXCEPT !.px = 0, !.line = 0, !.blk = 0, !.row = @ + 1]
    ELSE NextTile([p EXCEPT !.px = 0, !.line = 0, !.blk = 0, !.row = 0])

SmallNext(p) ==
    IF p.px < 3 THEN [p EXCEPT !.px = @ + 1]
    ELSE IF p.row < 3 THEN [p EXCEPT !.px = 0, !.row = @ + 1]
    ELSE NextTile([p EXCEPT !.px = 0, !.row = 0])

\* one unchecked write of a de-tiler, the cursor moving on by step
TileStep(target, val, px, step, next) ==
    /\ \E o \in PutPixel(img, wcount, CanvasW, CanvasH, target[1], target[2], px) :
          /\ img' = o.img
          /\ wcount' = o.wcount
          /\ pc' = IF o.fault THEN "fault"
                   ELSE IF next.ytile < args.tiles[2] THEN "loop"
                   ELSE "crop"
    /\ last' = [x |-> target[1], y |-> target[2], off |-> <<i>>, val |-> val,
                at |-> pos]
    /\ i' = i + step
    /\ pos' = next
    /\ UNCHANGED <<fn, args, out>>
    /\ UNCHANGED convVars

\* copy_px, lines 270-280
\* faulty variant: the cursor counted in pixels
CopyPxStepOne == 4 - 3
CopyPxStep == 4

CopyPx ==
    /\ fn = "to_image" /\ pc = "loop"
    /\ LET color == <<Sample8(args.mapping, i + 2), Sample8(args.mapping, i + 1),
                      Sample8(args.mapping, i + 0)>>
       IN  TileStep(ToImageTarget(pos), color, color, CopyPxStep, ToImageNext(pos))

\* avg_16, lines 212-221
\* for n in 0..16 { avg.add(mapping[i + n]) }: the accumulator after the
\* adds n, n+1, .., 15 (each sum is bound as a value before the next add)
RECURSIVE Avg16Adds(_, _, _, _)
Avg16Adds(avg, buf, from, n) ==
    IF n = 16 THEN avg
    ELSE CHOOSE r \in {Avg16Adds(a, buf, from, n + 1) :
                         a \in {PixelAverage_add(avg, Sample32(buf, from + n))}} : TRUE

\* faulty variant: the cursor advanced by a quarter of the group
Avg16StepFour == 16 \div 4
Avg16Step == 16

Avg16 ==
    /\ fn = "decode_tiled_small_image" /\ pc = "loop"
    /\ LET avg == Avg16Adds(PixelAverage_new, args.mapping, i, 0)
       IN  TileStep(SmallTarget(pos), avg, PixelAverage_rgb(avg), Avg16Step,
                    SmallNext(pos))

\* img.sub_image(0, 0, w, h).to_image(), lines 263 and 335; the requested
\* size is an argument of the call, first read here
CropSizes == {<<20, 20>>, <<32, 17>>, <<33, 64>>, <<64, 64>>, <<5, 1>>, <<7, 0>>}

\* faulty variant: the canvas returned uncropped
SubImageWholeCanvas(im, cw, ch, w, h) ==
    [w |-> cw, h |-> ch, px |-> im]

SubImage(im, cw, ch, w, h) ==
    [w |-> w, h |-> h,
     px |-> [k \in 1 .. w * h |-> GetPixel(im, cw, (k - 1) % w, (k - 1) \div w)]]

CropDims(size) ==
    IF fn = "to_image" THEN size ELSE <<size[1] \div 4, size[2] \div 4>>

Crop ==
    /\ fn \in TileFns /\ pc = "crop"
    /\ \E size \in CropSizes :
          /\ CropDims(size)[1] <= CanvasW
          /\ CropDims(size)[2] <= CanvasH
          /\ out' = [size |-> size]
                    @@ SubImage(img, CanvasW, CanvasH, CropDims(size)[1],
                                CropDims(size)[2])
    /\ pc' = "done"
    /\ UNCHANGED <<fn, args, pos, i, img, wcount, last>>
    /\ UNCHANGED convVars

NextTiles == CopyPx \/ Avg16 \/ Crop

\* the tile size the de-tilers are written for, and any tile size
InitTiles32 == InitTiles({32})
InitTilesAnySize == InitTiles(TileSizes)
SpecTiles == InitTiles32 /\ [][NextTiles]_vars
SpecTilesAnySize == InitTilesAnySize /\ [][NextTiles]_vars

----------------------------------------------------------------------------
(* Claims about the converters *)

\* the scale and the rounding offset of the red, green and blue fields
C4_Scale == <<527, 259, 527>>
C4_Round == <<23, 33, 23>>
C4_Expansion ==
    conv = "Rgb565" =>
        LET f == Rgb565Fields(dat)
        IN  /\ \A c \in 1 .. 3 :
                  /\ f[c] * C4_Scale[c] + C4_Round[c] < TwoPow16
                  /\ rgbOut[c] = (f[c] * C4_Scale[c] + C4_Round[c]) \div 64
                  /\ rgbOut[c] \in 0 .. 255
            /\ (dat = 0 => rgbOut = <<0, 0, 0>>)
            /\ (dat = 65535 => rgbOut = <<255, 255, 255>>)
C4_Monotone ==
    \A c \in 1 .. 3 :
        /\ Rgb565Fields(dat')[c] >= Rgb565Fields(dat)[c] => rgbOut'[c] >= rgbOut[c]
        /\ Rgb565Fields(dat')[c] = Rgb565Fields(dat)[c] => rgbOut'[c] = rgbOut[c]

\* C4 (Rgb565::rgb): red and blue expand as (v*527+23)>>6 and green as
\* (v*259+33)>>6 with the 16-bit product never overflowing; 0x0000 gives
\* (0,0,0) and 0xFFFF gives (255,255,255); and from one converted value to
\* the next, a channel whose field did not fall does not fall, and a channel
\* whose field did not change does not change.
C4_Rgb565Expands == [](C4_Expansion) /\ [][C4_Monotone]_vars

C4_Witness == conv = "Rgb565" /\ dat = 65535 /\ rgbOut = <<255, 255, 255>>

\* floor(n / 256), and saturation into [0,255]
C5_Floor256(n) ==
    CHOOSE q \in {n \div 256 - 1, n \div 256, n \div 256 + 1} :
        256 * q <= n /\ n < 256 * (q + 1)
C5_Sat(v) == IF v < 0 THEN 0 ELSE IF v > 255 THEN 255 ELSE v
C5_InI32(n) == -2147483647 <= n /\ n <= 2147483647

\* C5 (YUV420Pixel::rgb): each channel is the BT.601 value, floored by the
\* arithmetic shift and saturated into [0,255], no intermediate leaving the
\* i32 range; (16,128,128) gives black, (235,128,128) gives white.
C5_YuvClamped ==
    (conv = "YUV420Pixel" /\ rgbOut # <<>>) =>
        LET C == dat[1] - 16
            D == dat[2] - 128
            E == dat[3] - 128
            R == C5_Floor256(298 * C + 409 * E + 128)
            G == C5_Floor256(298 * C - 100 * D - 208 * E + 128)
            B == C5_Floor256(298 * C + 516 * D + 128)
        IN  /\ C5_InI32(298 * C + 409 * E + 128)
            /\ C5_InI32(298 * C - 100 * D - 208 * E + 128)
            /\ C5_InI32(298 * C + 516 * D + 128)
            /\ rgbOut = <<C5_Sat(R), C5_Sat(G), C5_Sat(B)>>
            /\ \A c \in 1 .. 3 : rgbOut[c] \in 0 .. 255
            /\ (dat = <<16, 128, 128>> => rgbOut = <<0, 0, 0>>)
            /\ (dat = <<235, 128, 128>> => rgbOut = <<255, 255, 255>>)

\* the out-of-range input of the spec: red saturates high
C5_Witness ==
    conv = "YUV420Pixel" /\ dat = <<255, 0, 255>> /\ rgbOut = <<255, 225, 20>>

\* the sum of byte k over the words added so far
C6_Sum(k) == SumOver([w \in Words |-> added[w] * ByteOf(w, k)], Words)

\* C6 (PixelAverage): through 16 adds the two sums hold the exact channel
\* sums (red in the high half, blue in the low half, green times 256: no
\* carry between them, no wrap), and rgb() after exactly 16 adds is the
\* floor of each channel's sum over 16, whatever the order of the adds; the
\* same word 16 times gives that word's channels.
C6_BoxAverage ==
    conv = "PixelAverage" =>
        /\ NumAdded <= 16 =>
              /\ dat.avg_rb = W32(C6_Sum(2), C6_Sum(0))
              /\ dat.avg_g = W32(C6_Sum(1) \div 256, (C6_Sum(1) % 256) * 256)
        /\ (NumAdded = 16 /\ rgbOut # <<>>) =>
              /\ rgbOut = <<C6_Sum(2) \div 16, C6_Sum(1) \div 16, C6_Sum(0) \div 16>>
              /\ \A w \in Words :
                    added[w] = 16 => rgbOut = <<ByteOf(w, 2), ByteOf(w, 1), ByteOf(w, 0)>>

\* 16 adds of at least three different words, the red sum leaving a remainder
C6_Witness ==
    /\ conv = "PixelAverage" /\ NumAdded = 16 /\ rgbOut # <<>>
    /\ Cardinality({w \in Words : added[w] > 0}) >= 3
    /\ C6_Sum(2) % 16 # 0
    /\ C6_Sum(0) % 16 # 0

----------------------------------------------------------------------------
(* Claims about the linear decoders *)

\* the cells a row-major walk standing at pos has passed
Passed(x, y) == y < pos.y \/ (y = pos.y /\ x < pos.x)

\* the sample width in bytes, and the conversion of sample k
C7_Unit == IF fn = "decode_image" THEN 4 ELSE 2
C7_Converted(k) ==
    IF fn = "decode_image"
    THEN LET v == Sample32(args.mapping, k)
         IN  <<Hi(v) % 256, Lo(v) \div 256, Lo(v) % 256>>
    ELSE Rgb565_rgb(Sample16(args.mapping, k))

\* C7 (decode_image, rgb565_to_rgb888): the pixel at (x,y) is the conversion
\* of the sample at y*floor(pitch/unit) + x (unit 4 and bytes 2,1,0 of the
\* word, or unit 2 and the RGB565 expansion); a walk writes each cell it has
\* passed exactly once and no other, and all of them when it ends; with
\* pitch = 4*width the packed decoder reads sample y*width + x; the constant
\* 0xF800 buffer, 2x2, pitch 4, decodes to (255,0,0) everywhere.
C7_LinearOffsetLaw ==
    fn \in {"decode_image", "rgb565_to_rgb888"} =>
        LET w == args.size[1]
            h == args.size[2]
            row == args.pitch \div C7_Unit
        IN  /\ pc \in {"loop", "done"}
            /\ DOMAIN img = 1 .. w * h
            /\ \A x \in 0 .. w - 1, y \in 0 .. h - 1 :
                  /\ wcount[Cell(w, x, y)] = (IF Passed(x, y) THEN 1 ELSE 0)
                  /\ Passed(x, y) =>
                        /\ img[Cell(w, x, y)] = C7_Converted(y * row + x)
                        /\ (fn = "decode_image" /\ args.pitch = 4 * w) =>
                              img[Cell(w, x, y)] = C7_Converted(y * w + x)
            /\ last # <<>> => last.off = <<last.y * row + last.x>>
            /\ pc = "done" =>
                  /\ out = img
                  /\ \A k \in 1 .. w * h : wcount[k] = 1
                  /\ (fn = "rgb565_to_rgb888" /\ args.mapping = BufRed
                      /\ args.size = <<2, 2>> /\ args.pitch = 4) =>
                        \A k \in 1 .. 4 : out[k] = <<255, 0, 0>>

\* a finished 3x3 RGB565 decode of the varying buffer with a padded pitch
C7_Witness ==
    /\ fn = "rgb565_to_rgb888" /\ pc = "done"
    /\ args.mapping = BufMixed /\ args.size = <<3, 3>> /\ args.pitch = 10
    /\ last.off = <<12>>
    /\ out[Cell(3, 2, 2)] = Rgb565_rgb(Sample16(BufMixed, 12))

\* the luma sample of source pixel (X, Y), and the (Y, U, V) that output
\* pixel (x, y) is to be converted from
C8_Luma(X, Y) == Sample8(args.mappings[1], Y * args.pitches[1] + X)
C8_Fed(x, y) ==
    <<(C8_Luma(2 * x, 2 * y) + C8_Luma(2 * x + 1, 2 * y) + C8_Luma(2 * x, 2 * y + 1)
       + C8_Luma(2 * x + 1, 2 * y + 1)) \div 4,
      Sample8(args.mappings[2], y * args.pitches[2] + x),
      Sample8(args.mappings[3], y * args.pitches[3] + x)>>

\* C8 (decode_small_image_multichannel): the raster is floor(w/2) by
\* floor(h/2); the pixel at (x,y) is the YUV conversion of the truncated mean
\* of the luma samples at (2x,2y), (2x+1,2y), (2x,2y+1), (2x+1,2y+1), each
\* addressed Y*pitches[0] + X, with U and V read at y*pitches[k] + x, the
\* chroma offsets the full-resolution decoder computes for those four pixels.
C8_HalfResolution ==
    fn = "decode_small_image_multichannel" =>
        LET w == args.size[1] \div 2
            h == args.size[2] \div 2
        IN  /\ pc \in {"loop", "done"}
            /\ 2 * w <= args.size[1] /\ args.size[1] <= 2 * w + 1
            /\ 2 * h <= args.size[2] /\ args.size[2] <= 2 * h + 1
            /\ DOMAIN img = 1 .. w * h
            /\ \A x \in 0 .. w - 1, y \in 0 .. h - 1 :
                  /\ wcount[Cell(w, x, y)] = (IF Passed(x, y) THEN 1 ELSE 0)
                  /\ Passed(x, y) => img[Cell(w, x, y)] = YUV420Pixel_rgb(C8_Fed(x, y))
            /\ last # <<>> =>
                  /\ last.val = C8_Fed(last.x, last.y)
                  /\ \A dx \in {0, 1}, dy \in {0, 1} :
                        LET full == FullOffsets(args.pitches, 2 * last.x + dx,
                                                2 * last.y + dy)
                        IN  /\ full[2] = last.off[2]
                            /\ full[3] = last.off[3]
                            /\ full[1] = last.off[1] + dy * args.pitches[1] + dx
            /\ pc = "done" => out = img

\* the last pixel of a 2x2 result has been written from an odd-sized source
C8_Witness ==
    /\ fn = "decode_small_image_multichannel" /\ pc = "done"
    /\ args.size[1] \div 2 = 2 /\ args.size[2] \div 2 = 2
    /\ last.x = 1 /\ last.y = 1
    /\ out[Cell(2, 1, 1)] = YUV420Pixel_rgb(C8_Fed(1, 1))
    /\ out[Cell(2, 1, 1)] # out[Cell(2, 0, 0)]

----------------------------------------------------------------------------
(* Claims about the de-tilers *)

\* the number of leaf calls (copy_px or avg_16) that returned before p
LeafRank(p) ==
    LET tile == p.ytile * args.tiles[1] + p.n
    IN  IF fn = "to_image"
        THEN ((((tile * 4 + p.quad) * 4 + p.row) * 4 + p.blk) * 4 + p.line) * 4 + p.px
        ELSE ((tile * 4 + p.quad) * 4 + p.row) * 4 + p.px

\* source pixel n as copy_px reads it
C1_SourcePixel(n) ==
    <<Sample8(args.mapping, 4 * n + 2), Sample8(args.mapping, 4 * n + 1),
      Sample8(args.mapping, 4 * n)>>
C1_Cursor ==
    fn = "to_image" =>
        LET total == args.tiles[1] * args.tiles[2] * 1024
        IN  /\ i = 4 * LeafRank(pos)
            /\ i <= 4 * total
            /\ last # <<>> =>
                  /\ last.off = <<i - 4>>
                  /\ last.off[1] = 4 * LeafRank(last.at)
                  /\ last.val = C1_SourcePixel(LeafRank(last.at))
            /\ pc \in {"crop", "done"} =>
                  /\ i = 4 * total
                  /\ {img[k] : k \in DOMAIN img} = {C1_SourcePixel(n) : n \in 0 .. total - 1}
                  /\ Cardinality({img[k] : k \in DOMAIN img}) = total
C1_Advance ==
    (fn = "to_image" /\ pc = "loop") => (i' = i + 4 /\ last'.off = <<i>>)

\* C1 (to_image, tile size 32): the cursor starts at 0 and is 4 bytes times
\* the number of pixels copied, so the pixel copied n-th is source pixel n;
\* each copy adds exactly 4; when the loops end the cursor is
\* 4*tiles_x*tiles_y*1024 and the tiles_x*tiles_y*1024 source pixels lie on
\* as many different cells of the canvas.
C1_CursorVisitsEachPixelOnce == [](C1_Cursor) /\ [][C1_Advance]_vars

\* the loops over a grid of one tile have ended
C1_Witness ==
    /\ fn = "to_image" /\ args.tiles = <<1, 1>> /\ pc = "crop"
    /\ i = 4096 /\ last.off = <<4092>> /\ last.x = 31 /\ last.y = 15

\* a tile's edge on the canvas, the source units one tile consumes, the
\* quadrant of its tile a cell lies in, and the documented quadrant order
C2_Edge == IF fn = "to_image" THEN 32 ELSE 8
C2_PerTile == IF fn = "to_image" THEN 4096 ELSE 1024
C2_QuadrantAt(x, y) ==
    <<IF 2 * (y % C2_Edge) < C2_Edge THEN "T" ELSE "B",
      IF 2 * (x % C2_Edge) < C2_Edge THEN "L" ELSE "R">>
C2_QuadrantOrder(trow) ==
    IF trow % 2 = 0
    THEN <<<<"T", "L">>, <<"B", "L">>, <<"B", "R">>, <<"T", "R">>>>
    ELSE <<<<"B", "R">>, <<"T", "R">>, <<"T", "L">>, <<"B", "L">>>>

\* C2 (both de-tilers, tile size 32): the write that consumed source unit c
\* falls in the tile and quadrant that the serpentine order gives c: tiles
\* are consumed whole, row after row from the top, left to right in an even
\* row and right to left in an odd row; a tile's four quarters of the stream
\* are its quadrants TL, BL, BR, TR in an even row and BR, TR, TL, BL in an
\* odd row.
C2_Serpentine ==
    (fn \in TileFns /\ last # <<>>) =>
        LET c == last.off[1]
            t == c \div C2_PerTile
            trow == t \div args.tiles[1]
            k == t % args.tiles[1]
            tcol == IF trow % 2 = 0 THEN k ELSE args.tiles[1] - 1 - k
            quarter == (4 * (c % C2_PerTile)) \div C2_PerTile
        IN  /\ last.y \div C2_Edge = trow
            /\ last.x \div C2_Edge = tcol
            /\ C2_QuadrantAt(last.x, last.y) = C2_QuadrantOrder(trow)[quarter + 1]

\* the first write of the odd row of a 2x2 grid lands in the bottom-right
\* quadrant of the right-hand tile
C2_Witness ==
    /\ fn = "decode_tiled_small_image" /\ args.tiles = <<2, 2>> /\ last # <<>>
    /\ last.off = <<2048>> /\ last.x = 12 /\ last.y = 12

\* C3 (to_image, tile size 32): the canvas is tiles_x*32 by tiles_y*32 with
\* every cell written once, and the image returned for a requested size
\* within the canvas has exactly that size, its pixel (x,y) being the
\* canvas's pixel (x,y).
C3_Crop ==
    (fn = "to_image" /\ pc = "done") =>
        LET cw == args.tiles[1] * args.tilesize
            ch == args.tiles[2] * args.tilesize
        IN  /\ DOMAIN img = 1 .. cw * ch
            /\ \A k \in DOMAIN img : wcount[k] = 1
            /\ out.w = out.size[1] /\ out.h = out.size[2]
            /\ DOMAIN out.px = 1 .. out.size[1] * out.size[2]
            /\ \A x \in 0 .. out.size[1] - 1, y \in 0 .. out.size[2] - 1 :
                  out.px[Cell(out.size[1], x, y)] = img[Cell(cw, x, y)]

\* one tile cropped to 20x20
C3_Witness ==
    /\ fn = "to_image" /\ pc = "done" /\ args.tiles = <<1, 1>>
    /\ out.size = <<20, 20>> /\ out.w = 20 /\ out.h = 20
    /\ out.px[Cell(20, 19, 19)] = img[Cell(32, 19, 19)]
    /\ out.px[Cell(20, 0, 1)] = img[Cell(32, 0, 1)]

\* every pixel written is the box average (each channel's sum over 16,
\* floored) of the 16 source words from the cursor on, and the cursor then
\* stands 16 further
C9_Channel(from, c) ==
    LET b(n) == ByteOf(Sample32(args.mapping, from + n), c)
    IN  (b(0) + b(1) + b(2) + b(3) + b(4) + b(5) + b(6) + b(7) + b(8) + b(9)
         + b(10) + b(11) + b(12) + b(13) + b(14) + b(15)) \div 16
C9_EachWrite ==
    last # <<>> =>
        /\ i = last.off[1] + 16
        /\ last.off[1] = 16 * LeafRank(last.at)
        /\ img[Cell(CanvasW, last.x, last.y)]
             = <<C9_Channel(last.off[1], 2), C9_Channel(last.off[1], 1),
                 C9_Channel(last.off[1], 0)>>
C9_AtTileStart == pos.quad = 0 /\ pos.row = 0 /\ pos.px = 0
C9_TilesDone == pos.ytile * args.tiles[1] + pos.n

\* C9 as claimed (decode_tiled_small_image, tile size 32): every pixel
\* written is the box average of the 16 source words from the cursor on, the
\* cursor then advancing by 16, and a destination tile takes 16 such groups
C9_Original ==
    fn = "decode_tiled_small_image" =>
        /\ C9_EachWrite
        /\ C9_AtTileStart => i = 16 * 16 * C9_TilesDone

\* C9 as amended: the same of every pixel written, and a destination tile
\* takes 64 groups of 16 source words, 16 groups for each of its quadrants
C9_Amended ==
    fn = "decode_tiled_small_image" =>
        /\ C9_EachWrite
        /\ C9_AtTileStart => i = 64 * 16 * C9_TilesDone
        /\ (pos.row = 0 /\ pos.px = 0) => i = 16 * 16 * (4 * C9_TilesDone + pos.quad)

\* the first tile of a row of two is complete
C9_Witness ==
    /\ fn = "decode_tiled_small_image" /\ pc = "loop"
    /\ pos.ytile = 0 /\ pos.n = 1 /\ C9_AtTileStart
    /\ i = 1024 /\ last.x = 7 /\ last.y = 3

\* C10 (both de-tilers, any tile size): every unchecked write lands inside
\* the allocated canvas, and when the loops end every cell of the canvas has
\* been written exactly once.
C10_WritesInsideCanvasOnce ==
    fn \in TileFns =>
        /\ pc # "fault"
        /\ last # <<>> => (last.x < CanvasW /\ last.y < CanvasH)
        /\ pc \in {"crop", "done"} => \A k \in DOMAIN wcount : wcount[k] = 1

====
